---- MODULE Spec2Model ----
(***************************************************************************)
(* Document state engine of the Nano-Banana infinite canvas (src/App.tsx): *)
(* the undo/redo history of the element list, the element operations       *)
(* (create, update, delete, reorder, recolor, import), the selection and   *)
(* the z-order creation counter; export and import of files, image         *)
(* generation with its candidate dialog, and the drawing modal             *)
(* (src/unnamed/part_000) with its surface and raster history.             *)
(*                                                                         *)
(* Numbers are JavaScript numbers restricted to integers plus NaN; ids are *)
(* strings, represented by integers (0 stands for the empty string).       *)
(* The history hook ./useHistoryState is not part of the sources at hand;  *)
(* it is modelled from section 4.1 of the specification.                   *)
(***************************************************************************)
EXTENDS Integers, Sequences, FiniteSets, TLC

VARIABLES
    history,             \* useHistoryState: the entries, oldest first
    currentIndex,        \* useHistoryState: the cursor, 0 = oldest entry
    selectedElementIds,  \* App.tsx:49, an array of ids read only through
                         \* includes(), new Set() and length: kept as a set
    zIndexCounter,       \* App.tsx:62
    editingDrawing,      \* App.tsx:54, <<the drawing element being edited>> or <<>>
    moves,               \* number of pointer-move updates delivered so far
    gesture,             \* bookkeeping: the current run of consecutive merges
    lastOp,              \* bookkeeping: the handler that last changed the state
    redoDropped,         \* bookkeeping: that handler committed over redo entries
    scenario,            \* bookkeeping: how far the reorder scenario has come
    uploads,             \* App.tsx:157, the batches of image files still being read
    reads,               \* App.tsx:513, the files a FileReader is still reading
    isGenerating,        \* App.tsx:51
    generatedImages,     \* App.tsx:52, <<the array of candidates>> or <<>>
    calls,               \* App.tsx:207, the service calls of requests in flight
    modal,               \* part_000:18, the drawing modal while it is open
    downloads,           \* App.tsx:503, the exported files, each with its Document
    decoding,            \* App.tsx:446, the chosen candidates still being decoded
    contextMenu          \* App.tsx:53, the context menu's data while it is shown

vars == <<history, currentIndex, selectedElementIds, zIndexCounter,
          editingDrawing, moves, gesture, lastOp, redoDropped, scenario, uploads,
          reads, isGenerating, generatedImages, calls, modal, downloads, decoding,
          contextMenu>>

----------------------------------------------------------------------------
(* Bounds of the model *)

MaxHistory == 2      \* commits are explored while the cursor is below this
MaxElements == 4     \* creations are explored while the Document is shorter
MaxDepth == 3        \* the same for the gesture specification
MaxMoves == 2        \* pointer-move updates explored in one run
MaxCounter == 5      \* creations are explored while the counter is below this
MaxFiles == 2        \* files chosen in one upload
MaxPending == 2      \* batches of image files being read at the same time
MaxUploaded == 5     \* uploads are explored while the Document stays within this length
MaxDrags == 1        \* pointer-move updates explored in one run with selections
MaxSteps == 4        \* the same for the reorder scenario
MaxSmall == 2        \* the reorder scenario is explored on Documents up to this length
MaxBack == 1         \* send-to-back is explored while the lowest z-order is above -MaxBack
MaxReads == 1        \* files being read at the same time
MaxDownloads == 1    \* exported files at hand
MaxDecoding == 1     \* chosen candidates being decoded at the same time
MaxRaster == 3       \* raster entries explored in one drawing session
MaxSessions == 3     \* Document commits explored around drawing sessions
MaxDrawings == 4     \* drawings are created while the Document is shorter

----------------------------------------------------------------------------
(* JavaScript values *)

\* null where an id is expected (ids are strings, none of them is -1)
Null == -1

\* an absent optional argument
Absent == [absent |-> TRUE]

\* editingDrawing is null, or holds one element: <<>> or <<element>>
NoDrawing == <<>>

\* generatedImages is null, or holds one array of candidates
NoImages == <<>>

\* the drawing modal is not mounted
NoModal == [mounted |-> FALSE]

\* contextMenu = null
NoMenu == [shown |-> FALSE]

\* The result of arithmetic on undefined: Math.max(undefined, 0) is NaN.
NaN == -999999

IsNaN(v) == v = NaN

JsAdd(a, b) == IF IsNaN(a) \/ IsNaN(b) THEN NaN ELSE a + b

\* a < b and a > b are false as soon as one side is NaN
JsLess(a, b) == ~IsNaN(a) /\ ~IsNaN(b) /\ a < b

Has(rec, field) == field \in DOMAIN rec

\* null where a number is expected: what JSON makes of NaN
NullNumber == -999998

\* el.zIndex inside arithmetic: NaN stands in for undefined, null counts as 0
ZIndexOf(el) ==
    IF ~Has(el, "zIndex") THEN NaN
    ELSE IF el.zIndex = NullNumber THEN 0 ELSE el.zIndex

\* el.zIndex || 0 : undefined, null, NaN and 0 are falsy
ZIndexOrZero(el) ==
    IF Has(el, "zIndex") /\ ~IsNaN(el.zIndex) /\ el.zIndex # NullNumber
    THEN el.zIndex ELSE 0

RECURSIVE SetMax(_)
SetMax(S) ==
    LET x == CHOOSE v \in S : TRUE
    IN  IF S = {x} THEN x
        ELSE LET m == SetMax(S \ {x}) IN IF x > m THEN x ELSE m

RECURSIVE SetMin(_)
SetMin(S) ==
    LET x == CHOOSE v \in S : TRUE
    IN  IF S = {x} THEN x
        ELSE LET m == SetMin(S \ {x}) IN IF x < m THEN x ELSE m

Range(s) == {s[i] : i \in 1..Len(s)}

\* Math.max(...values): NaN if any argument is NaN (or undefined)
MathMax(values) == IF NaN \in values THEN NaN ELSE SetMax(values)

\* Math.min(...values)
MathMin(values) == IF NaN \in values THEN NaN ELSE SetMin(values)

\* array.map(f)
Map(s, f(_)) == [i \in 1..Len(s) |-> f(s[i])]

\* array.includes(x)
Includes(s, x) == \E i \in 1..Len(s) : s[i] = x

----------------------------------------------------------------------------
(* Elements *)

Point(px, py) == [x |-> px, y |-> py]

\* the palette COLORS, cut down to one entry
COLORS == {"bg-red-500"}

INITIAL_ELEMENTS == <<
    [id |-> 1, type |-> "note", position |-> Point(20, -190), width |-> 430,
     height |-> 190, rotation |-> 0, zIndex |-> 1, content |-> "banner",
     color |-> "bg-blue-600", textAlign |-> "center"],
    [id |-> 2, type |-> "note", position |-> Point(250, 30), width |-> 250,
     height |-> 190, rotation |-> -10, zIndex |-> 2, content |-> "control",
     color |-> "bg-green-500"],
    [id |-> 3, type |-> "note", position |-> Point(-200, 30), width |-> 250,
     height |-> 150, rotation |-> 5, zIndex |-> 0, content |-> "shortcut",
     color |-> "bg-yellow-500"] >>

\* getRandomPosition(), or the position handed in by the context menu
Positions == {Point(0, 0)}

\* `${Date.now()}-${Math.random().toString(36).substring(2, 9)}`: a string
\* with a dash, so never "", "1", "2" or "3"; nothing in the code keeps two
\* draws apart, they differ only by chance
GeneratedIds == {101, 102}

----------------------------------------------------------------------------
(* History store (specification section 4.1) *)

elements == history[currentIndex + 1]

canUndo == currentIndex > 0

canRedo == currentIndex < Len(history) - 1

\* commit(newState): drop the entries after the cursor, push, move the cursor
CommitHistory(h, idx, newState) == Append(SubSeq(h, 1, idx + 1), newState)

CommitIndex(h, idx) == idx + 1

\* merge(newState): replace the entry at the cursor in place
MergeHistory(h, idx, newState) == [h EXCEPT ![idx + 1] = newState]

\* undo that does not stop at the oldest entry
UndoIndexUnguarded(h, idx) == idx - 1

\* undo(): one entry back, unless already at the oldest
UndoIndex(h, idx) == IF idx > 0 THEN idx - 1 ELSE idx

\* redo that jumps to the newest entry
RedoIndexToNewest(h, idx) == IF idx < Len(h) - 1 THEN Len(h) - 1 ELSE idx

\* redo(): one entry forward, if there is a newer one
RedoIndex(h, idx) == IF idx < Len(h) - 1 THEN idx + 1 ELSE idx

\* setState(updater, { addToHistory })
SetElements(newState, addToHistory) ==
    IF addToHistory
    THEN /\ history' = CommitHistory(history, currentIndex, newState)
         /\ currentIndex' = CommitIndex(history, currentIndex)
    ELSE /\ history' = MergeHistory(history, currentIndex, newState)
         /\ currentIndex' = currentIndex

NoGesture == [n |-> 0, ended |-> FALSE, idx0 |-> 0, len0 |-> 0, doc0 |-> <<>>,
              updated |-> <<>>, delta |-> Absent]

\* the program's own state
appState == <<history, currentIndex, selectedElementIds, zIndexCounter, editingDrawing,
              uploads, reads, isGenerating, generatedImages, calls, modal, downloads, decoding,
              contextMenu>>

CreateOps == {"addNote", "addArrow", "addDrawing"}

\* the Document [A(z=0)] as a file to import
ScenarioFile ==
    [kind |-> "array",
     items |-> <<[id |-> 9, type |-> "note", position |-> Point(0, 0),
                  width |-> 150, height |-> 100, rotation |-> 0,
                  content |-> "A", color |-> "bg-red-500", zIndex |-> 0]>>]

\* The scenario: 1 the Document has become [A(z=0)], 2 then one element was
\* created, 3 then A alone was brought to front, 4 then undo, 5 then redo.
\* Selecting does not interrupt it, any other handler does.
ScenarioStep(op) ==
    IF op = "import" /\ history'[currentIndex' + 1] = ScenarioFile.items THEN 1
    ELSE IF op \in {"select", "selectNone", "marquee"} THEN scenario
    ELSE IF scenario = 1 /\ op \in CreateOps THEN 2
    ELSE IF scenario = 2 /\ op = "bringToFront" /\ selectedElementIds = {9} THEN 3
    ELSE IF scenario = 3 /\ op = "undo" THEN 4
    ELSE IF scenario = 4 /\ op = "redo" THEN 5
    ELSE 0

\* Bookkeeping, the last conjunct of a handler: a handler that changed the
\* program's state is recorded and closes the run of merges; one that left
\* everything as it was leaves no trace.
Did(op) ==
    IF appState' = appState
    THEN UNCHANGED <<lastOp, gesture, redoDropped, scenario>>
    ELSE /\ lastOp' = op
         /\ gesture' = NoGesture
         /\ redoDropped' = (canRedo /\ currentIndex' = currentIndex + 1)
         /\ scenario' = ScenarioStep(op)

----------------------------------------------------------------------------
Init ==
    /\ history = <<INITIAL_ELEMENTS>>
    /\ currentIndex = 0
    /\ selectedElementIds = {}
    /\ zIndexCounter = Len(INITIAL_ELEMENTS)
    /\ editingDrawing = NoDrawing
    /\ moves = 0
    /\ gesture = NoGesture
    /\ lastOp = "init"
    /\ redoDropped = FALSE
    /\ scenario = 0
    /\ uploads = <<>>
    /\ reads = <<>>
    /\ isGenerating = FALSE
    /\ generatedImages = NoImages
    /\ calls = <<>>
    /\ modal = NoModal
    /\ downloads = {}
    /\ decoding = <<>>
    /\ contextMenu = NoMenu

\* The drawing modal covers the whole viewport (part_000:192), so the menu,
\* the canvas and the context menu are out of reach while it is open.
MainUiReachable == editingDrawing = NoDrawing

\* addElement that merges instead of committing
AddElementMerging(newElement, newId) ==
    /\ LET elementWithId ==
               newElement @@ [id |-> newId, zIndex |-> zIndexCounter]
       IN  SetElements(Append(elements, elementWithId), FALSE)
    /\ zIndexCounter' = JsAdd(zIndexCounter, 1)
    /\ UNCHANGED <<selectedElementIds, editingDrawing, moves, uploads, reads,
                   isGenerating, generatedImages, calls, modal, downloads>>

\* addElement
AddElement(newElement, newId) ==
    /\ LET elementWithId ==
               newElement @@ [id |-> newId, zIndex |-> zIndexCounter]
       IN  SetElements(Append(elements, elementWithId), TRUE)
    /\ zIndexCounter' = JsAdd(zIndexCounter, 1)
    /\ UNCHANGED <<selectedElementIds, editingDrawing, moves, uploads, reads,
                   isGenerating, generatedImages, calls, modal, downloads>>

AddNote ==
    /\ MainUiReachable
    /\ \E p \in Positions, c \in COLORS, newId \in GeneratedIds :
          AddElement([type |-> "note", position |-> p, width |-> 150,
                      height |-> 100, rotation |-> 0, content |-> "New Note",
                      color |-> c], newId)
    /\ UNCHANGED decoding
    /\ contextMenu' = NoMenu
    /\ Did("addNote")

AddArrow ==
    /\ MainUiReachable
    /\ \E p \in Positions, newId \in GeneratedIds :
          LET start == p
              end == Point(start.x + 150, start.y)
              dx == end.x - start.x
              dy == end.y - start.y
              \* Math.sqrt(dx*dx + dy*dy) and Math.atan2(dy, dx) for dy = 0, dx > 0
              width == dx
              rotation == 0
              centerPosition == Point((start.x + end.x) \div 2, (start.y + end.y) \div 2)
          IN  AddElement([type |-> "arrow", start |-> start, end |-> end,
                          position |-> centerPosition, width |-> width,
                          height |-> 30, rotation |-> rotation,
                          color |-> "text-red-500"], newId)
    /\ UNCHANGED decoding
    /\ contextMenu' = NoMenu
    /\ Did("addArrow")

AddDrawing ==
    /\ MainUiReachable
    /\ \E p \in Positions, newId \in GeneratedIds :
          AddElement([type |-> "drawing", position |-> p, width |-> 400,
                      height |-> 300, rotation |-> 0, src |-> ""], newId)
    /\ UNCHANGED decoding
    /\ contextMenu' = NoMenu
    /\ Did("addDrawing")

----------------------------------------------------------------------------
(* Image upload: the callback of Promise.all over the chosen files *)

MAX_DIMENSION == 300

\* natural sizes of the decoded bitmaps
NaturalSizes == {[width |-> 600, height |-> 300]}

\* the size given to an uploaded image: the longer side cut to MAX_DIMENSION
FitSize(size) ==
    IF size.width > MAX_DIMENSION \/ size.height > MAX_DIMENSION
    THEN IF size.width > size.height
         THEN [width |-> MAX_DIMENSION,
               height |-> (size.height * MAX_DIMENSION) \div size.width]
         ELSE [width |-> (size.width * MAX_DIMENSION) \div size.height,
               height |-> MAX_DIMENSION]
    ELSE size

\* what one file resolves to: an image without id and zIndex, or null
\* (the read or the decode failed)
Loaded(index, basePosition, size) ==
    [type |-> "image",
     position |-> Point(basePosition.x + index * 20, basePosition.y + index * 20),
     src |-> "data:image/png;base64,FILE",
     width |-> FitSize(size).width, height |-> FitSize(size).height,
     rotation |-> 0]

Failed == [type |-> "null"]

\* the outcomes of a batch of n files, file by file
BatchResults(n) ==
    {results \in [1..n -> {"loaded", "failed"}] : TRUE}

\* results.filter(el => el !== null)
NonNull(results) == SelectSeq(results, LAMBDA el : el # Failed)

\* ids drawn for the k new elements, one draw each
IdDraws(k) == [1..k -> GeneratedIds]

\* a then-callback that drops the whole batch when one of its files failed
ImageBatchLoadedAllOrNothing(outcomes, newIds) ==
    LET basePosition == CHOOSE p \in Positions : TRUE
        size == CHOOSE sz \in NaturalSizes : TRUE
        newElements == [k \in 1..Len(outcomes) |-> Loaded(k - 1, basePosition, size)]
        Stamped(k) == newElements[k] @@
                          [id |-> newIds[k], zIndex |-> JsAdd(zIndexCounter, k - 1)]
        complete == \A i \in 1..Len(outcomes) : outcomes[i] = "loaded"
    IN  /\ Len(newIds) = Cardinality({i \in 1..Len(outcomes) : outcomes[i] = "loaded"})
        /\ IF complete
           THEN /\ SetElements(elements \o [k \in 1..Len(newElements) |-> Stamped(k)],
                               TRUE)
                /\ zIndexCounter' = JsAdd(zIndexCounter, Len(newElements))
           ELSE UNCHANGED <<history, currentIndex, zIndexCounter>>
        /\ UNCHANGED <<selectedElementIds, editingDrawing, moves, reads, isGenerating, generatedImages, calls, modal, downloads, decoding, contextMenu>>

\* then-callback of Promise.all(imagePromises)
ImageBatchLoaded(outcomes, newIds) ==
    LET basePosition == CHOOSE p \in Positions : TRUE
        size == CHOOSE sz \in NaturalSizes : TRUE
        results == [i \in 1..Len(outcomes) |->
                       IF outcomes[i] = "loaded"
                       THEN Loaded(i - 1, basePosition, size)
                       ELSE Failed]
        newElements == NonNull(results)
        Stamped(k) == newElements[k] @@
                          [id |-> newIds[k], zIndex |-> JsAdd(zIndexCounter, k - 1)]
    IN  /\ Len(newIds) = Len(newElements)
        /\ IF Len(newElements) > 0
           THEN /\ SetElements(elements \o [k \in 1..Len(newElements) |-> Stamped(k)],
                               TRUE)
                /\ zIndexCounter' = JsAdd(zIndexCounter, Len(newElements))
           ELSE UNCHANGED <<history, currentIndex, zIndexCounter>>
        /\ UNCHANGED <<selectedElementIds, editingDrawing, moves, reads, isGenerating, generatedImages, calls, modal, downloads, decoding, contextMenu>>

\* number of files of the batch that loaded
LoadedCount(outcomes) == Cardinality({i \in 1..Len(outcomes) : outcomes[i] = "loaded"})

\* a batch in which at least one file loaded
ImageUpload(outcomes) ==
    /\ LoadedCount(outcomes) > 0
    /\ \E newIds \in IdDraws(LoadedCount(outcomes)) : ImageBatchLoaded(outcomes, newIds)
    /\ UNCHANGED uploads
    /\ Did("imageBatch")

\* a batch in which every file failed
ImageUploadAllFailed ==
    /\ \E n \in 1..MaxFiles :
          ImageBatchLoaded([i \in 1..n |-> "failed"], <<>>)
    /\ UNCHANGED uploads
    /\ Did("imageBatchFailed")

\* handleImageUpload: one promise per chosen file, each reading its file
HandleImageUpload ==
    /\ MainUiReachable
    /\ \E n \in 1..MaxFiles, basePosition \in Positions :
          uploads' = Append(uploads, [base |-> basePosition,
                                      status |-> [i \in 1..n |-> "reading"]])
    /\ contextMenu' = NoMenu
    /\ UNCHANGED <<history, currentIndex, selectedElementIds, zIndexCounter,
                   editingDrawing, moves, reads, isGenerating, generatedImages, calls, modal, downloads, decoding>>
    /\ Did("imageUploadStarted")

\* the files of batch b that are still being read
Reading(b) == {i \in 1..Len(uploads[b].status) : uploads[b].status[i] = "reading"}

\* img.onload, img.onerror or reader.onerror of a file while other files of
\* its batch are still being read: the file's promise resolves, that is all
FileSettles ==
    /\ \E b \in 1..Len(uploads) : \E i \in Reading(b) :
          /\ Reading(b) # {i}
          /\ \E outcome \in {"loaded", "failed"} :
                uploads' = [uploads EXCEPT ![b].status[i] = outcome]
    /\ UNCHANGED <<history, currentIndex, selectedElementIds, zIndexCounter,
                   editingDrawing, moves, reads, isGenerating, generatedImages, calls, modal, downloads, decoding, contextMenu>>
    /\ Did("fileSettled")

\* the sequence s without its b-th element
Without(s, b) == SubSeq(s, 1, b - 1) \o SubSeq(s, b + 1, Len(s))

\* the last file of batch b settles: Promise.all resolves and its callback
\* runs before any other event is handled
LastFileSettles(b, outcome) ==
    /\ b \in 1..Len(uploads)
    /\ \E i \in Reading(b) :
          /\ Reading(b) = {i}
          /\ LET outcomes == [uploads[b].status EXCEPT ![i] = outcome]
             IN  /\ \E newIds \in IdDraws(LoadedCount(outcomes)) :
                       ImageBatchLoaded(outcomes, newIds)
                 /\ uploads' = Without(uploads, b)
                 /\ Did(IF LoadedCount(outcomes) > 0
                        THEN "imageBatch" ELSE "imageBatchFailed")

----------------------------------------------------------------------------
(* Selection *)

\* ids of the Document, in Document order
ElementIds(els) == [i \in 1..Len(els) |-> els[i].id]

\* a plain click that always collapses the selection to the clicked element
SelectedAfterCollapsing(prevIds, id, shiftKey) ==
    IF shiftKey
    THEN IF id \in prevIds THEN prevIds \ {id} ELSE prevIds \cup {id}
    ELSE {id}

\* a shift-click that only ever adds
SelectedAfterAdding(prevIds, id, shiftKey) ==
    IF shiftKey
    THEN prevIds \cup {id}
    ELSE IF id \in prevIds THEN prevIds ELSE {id}

\* the updater handleSelectElement hands to setSelectedElementIds
SelectedAfter(prevIds, id, shiftKey) ==
    IF shiftKey
    THEN IF id \in prevIds THEN prevIds \ {id} ELSE prevIds \cup {id}
    ELSE IF id \in prevIds THEN prevIds ELSE {id}

\* handleSelectElement that empties the selection on every click on empty
\* canvas
HandleSelectElementClearing(id, shiftKey) ==
    /\ selectedElementIds' =
          IF id = Null
          THEN {}
          ELSE SelectedAfter(selectedElementIds, id, shiftKey)
    /\ contextMenu' = NoMenu
    /\ UNCHANGED <<history, currentIndex, zIndexCounter, editingDrawing, moves, uploads, reads, isGenerating, generatedImages, calls, modal, downloads, decoding>>

\* handleSelectElement(id, shiftKey); id = Null is a click on empty canvas
HandleSelectElement(id, shiftKey) ==
    /\ selectedElementIds' =
          IF id = Null
          THEN IF ~shiftKey THEN {} ELSE selectedElementIds
          ELSE SelectedAfter(selectedElementIds, id, shiftKey)
    /\ contextMenu' = NoMenu
    /\ UNCHANGED <<history, currentIndex, zIndexCounter, editingDrawing, moves, uploads, reads, isGenerating, generatedImages, calls, modal, downloads, decoding>>

SelectElement ==
    /\ MainUiReachable
    /\ \E id \in Range(ElementIds(elements)) \cup {Null}, shiftKey \in BOOLEAN :
          /\ HandleSelectElement(id, shiftKey)
          /\ Did(IF id = Null THEN "selectNone" ELSE "select")

\* a shift-marquee that toggles the enclosed ids
MarqueeSelectedAfterToggling(prevIds, ids, shiftKey) ==
    IF shiftKey
    THEN (prevIds \ ids) \cup (ids \ prevIds)
    ELSE ids

\* the updater handleMarqueeSelect hands to setSelectedElementIds
MarqueeSelectedAfter(prevIds, ids, shiftKey) ==
    IF shiftKey
    THEN LET newIds == {id \in ids : id \notin prevIds}
         IN  prevIds \cup newIds
    ELSE ids

\* handleMarqueeSelect(ids, shiftKey)
HandleMarqueeSelect(ids, shiftKey) ==
    /\ selectedElementIds' = MarqueeSelectedAfter(selectedElementIds, ids, shiftKey)
    /\ contextMenu' = NoMenu
    /\ UNCHANGED <<history, currentIndex, zIndexCounter, editingDrawing, moves, uploads, reads, isGenerating, generatedImages, calls, modal, downloads, decoding>>

\* what the marquee encloses: nothing, two neighbours of the Document, or all
MarqueeHits(els) ==
    {{}, Range(ElementIds(els))}
        \cup {{els[i].id, els[i + 1].id} : i \in 1..(Len(els) - 1)}

MarqueeSelect ==
    /\ MainUiReachable
    /\ \E ids \in MarqueeHits(elements), shiftKey \in BOOLEAN :
          HandleMarqueeSelect(ids, shiftKey)
    /\ Did("marquee")

----------------------------------------------------------------------------
(* Context menu.  A click anywhere in the page ends in main's onClick
   (App.tsx:550) and a pointer-down outside of the menu in the menu's
   handleClickOutside (part_001:46-50): both close the menu, so every handler
   that a pointer starts leaves contextMenu = null, while keys and loads that
   end leave it as it is. *)

\* elementId && ... : null and the empty string are falsy
Truthy(id) == id # Null /\ id # 0

\* handleContextMenu(e, worldPoint, elementId); elementId = Null on empty canvas
HandleContextMenu(elementId) ==
    /\ selectedElementIds' =
          IF Truthy(elementId) /\ elementId \notin selectedElementIds
          THEN SelectedAfter(selectedElementIds, elementId, FALSE)
          ELSE selectedElementIds
    /\ contextMenu' = [shown |-> TRUE, elementId |-> elementId]
    /\ UNCHANGED <<history, currentIndex, zIndexCounter, editingDrawing, moves, uploads, reads, isGenerating, generatedImages, calls, modal, downloads, decoding>>

\* a right click on an element or on empty canvas
OpenContextMenu ==
    /\ MainUiReachable
    /\ \E elementId \in Range(ElementIds(elements)) \cup {Null} :
          HandleContextMenu(elementId)
    /\ Did("contextMenu")

\* onClose of the menu, or a click on the page that does nothing else
CloseContextMenu ==
    /\ contextMenu # NoMenu
    /\ contextMenu' = NoMenu
    /\ UNCHANGED <<history, currentIndex, selectedElementIds, zIndexCounter, editingDrawing, moves, uploads, reads, isGenerating, generatedImages, calls, modal, downloads, decoding>>
    /\ Did("closeContextMenu")

----------------------------------------------------------------------------
(* Updates during a gesture *)

\* pointer displacement between two move events
Deltas == {Point(10, 0)}

\* updateElements that replaces the dragged element and moves nothing else
UpdateElementsAlone(updatedElement, dragDelta) ==
    LET Replaced(el) == IF el.id = updatedElement.id THEN updatedElement ELSE el
    IN  SetElements(Map(elements, Replaced), FALSE)

\* updateElements(updatedElement, dragDelta); dragDelta = Absent when not given
UpdateElements(updatedElement, dragDelta) ==
    LET multi == /\ dragDelta # Absent
                 /\ Cardinality(selectedElementIds) > 1
                 /\ updatedElement.id \in selectedElementIds
        selectedSet == selectedElementIds
        Dragged(el) ==
            IF el.id = updatedElement.id THEN updatedElement
            ELSE IF el.id \in selectedSet
                 THEN [el EXCEPT !.position = Point(el.position.x + dragDelta.x,
                                                    el.position.y + dragDelta.y)]
                 ELSE el
        Replaced(el) == IF el.id = updatedElement.id THEN updatedElement ELSE el
    IN  SetElements(IF multi THEN Map(elements, Dragged) ELSE Map(elements, Replaced),
                    FALSE)

\* the element a drag by d hands to updateElements
DraggedTo(el, d) ==
    LET moved == [el EXCEPT !.position = Point(el.position.x + d.x, el.position.y + d.y)]
    IN  IF el.type = "arrow"
        THEN [moved EXCEPT !.start = Point(el.start.x + d.x, el.start.y + d.y),
                           !.end = Point(el.end.x + d.x, el.end.y + d.y)]
        ELSE moved

StartedGesture == [n |-> 1, ended |-> FALSE, idx0 |-> currentIndex,
                   len0 |-> Len(history), doc0 |-> elements,
                   updated |-> <<>>, delta |-> Absent]

\* one onUpdateElement(updatedElement, dragDelta) of the canvas
Update(updatedElement, dragDelta) ==
    /\ moves' = moves + 1
    /\ UpdateElements(updatedElement, dragDelta)
    /\ gesture' = [(IF gesture.n = 0 \/ gesture.ended
                    THEN StartedGesture
                    ELSE [gesture EXCEPT !.n = @ + 1])
                      EXCEPT !.updated = <<updatedElement>>, !.delta = dragDelta]
    /\ lastOp' = "update"
    /\ redoDropped' = FALSE
    /\ scenario' = 0
    /\ contextMenu' = NoMenu
    /\ UNCHANGED <<selectedElementIds, zIndexCounter, editingDrawing, uploads, reads, isGenerating, generatedImages, calls, modal, downloads, decoding>>

\* a pointer-move of a drag: the element under the pointer, moved by d
PointerMove ==
    /\ MainUiReachable
    /\ \E i \in 1..Len(elements) :
          \E d \in Deltas : Update(DraggedTo(elements[i], d), d)

\* the element turned by one step of the rotation
Turned(el) == [el EXCEPT !.rotation = @ + 15]

\* a pointer-move of a drag that also carries a rotation of the dragged element
PointerTurn ==
    /\ MainUiReachable
    /\ \E i \in 1..Len(elements) :
          /\ elements[i].type # "arrow"
          /\ \E d \in Deltas : Update(Turned(DraggedTo(elements[i], d)), d)

\* a gesture end that merges instead of committing
HandleInteractionEndMerging ==
    /\ MainUiReachable
    /\ SetElements(elements, FALSE)
    /\ gesture' = IF gesture.n = 0 \/ gesture.ended
                  THEN [StartedGesture EXCEPT !.n = 0, !.ended = TRUE]
                  ELSE [gesture EXCEPT !.ended = TRUE]
    /\ lastOp' = "interactionEnd"
    /\ redoDropped' = canRedo
    /\ scenario' = 0
    /\ contextMenu' = NoMenu
    /\ UNCHANGED <<selectedElementIds, zIndexCounter, editingDrawing, moves, uploads, reads, isGenerating, generatedImages, calls, modal, downloads, decoding>>

\* handleInteractionEnd
HandleInteractionEnd ==
    /\ MainUiReachable
    /\ SetElements(elements, TRUE)
    /\ gesture' = IF gesture.n = 0 \/ gesture.ended
                  THEN [StartedGesture EXCEPT !.n = 0, !.ended = TRUE]
                  ELSE [gesture EXCEPT !.ended = TRUE]
    /\ lastOp' = "interactionEnd"
    /\ redoDropped' = canRedo
    /\ scenario' = 0
    /\ contextMenu' = NoMenu
    /\ UNCHANGED <<selectedElementIds, zIndexCounter, editingDrawing, moves, uploads, reads, isGenerating, generatedImages, calls, modal, downloads, decoding>>

----------------------------------------------------------------------------
(* Delete, reorder, recolor *)

\* deleteElement that forgets to clear the selection
DeleteElementKeepingSelection ==
    /\ MainUiReachable
    /\ Cardinality(selectedElementIds) # 0
    /\ LET selectedSet == selectedElementIds
       IN  SetElements(SelectSeq(elements, LAMBDA el : el.id \notin selectedSet), TRUE)
    /\ contextMenu' \in {contextMenu, NoMenu}
    /\ UNCHANGED <<selectedElementIds, zIndexCounter, editingDrawing, moves, uploads, reads, isGenerating, generatedImages, calls, modal, downloads, decoding>>
    /\ Did("delete")

\* deleteElement
DeleteElement ==
    /\ MainUiReachable
    /\ Cardinality(selectedElementIds) # 0
    /\ LET selectedSet == selectedElementIds
       IN  SetElements(SelectSeq(elements, LAMBDA el : el.id \notin selectedSet), TRUE)
    /\ selectedElementIds' = {}
    /\ contextMenu' \in {contextMenu, NoMenu}
    /\ UNCHANGED <<zIndexCounter, editingDrawing, moves, uploads, reads, isGenerating, generatedImages, calls, modal, downloads, decoding>>
    /\ Did("delete")

\* Math.max(...elements.map(el => el.zIndex), 0)
MaxZ(els) == MathMax({ZIndexOf(els[i]) : i \in 1..Len(els)} \cup {0})

\* Math.min(...elements.map(el => el.zIndex), 0)
MinZ(els) == MathMin({ZIndexOf(els[i]) : i \in 1..Len(els)} \cup {0})

\* { ...el, zIndex: z }
WithZIndex(el, z) == [f \in DOMAIN el \cup {"zIndex"} |-> IF f = "zIndex" THEN z ELSE el[f]]

\* bringToFront that raises to the greatest z-order, not above it
BringToFrontToMax ==
    /\ MainUiReachable
    /\ Cardinality(selectedElementIds) # 0
    /\ LET maxZ == MaxZ(elements)
           selectedSet == selectedElementIds
           Raised(el) == IF el.id \in selectedSet THEN WithZIndex(el, maxZ) ELSE el
       IN  /\ SetElements(Map(elements, Raised), TRUE)
           /\ zIndexCounter' = JsAdd(maxZ, 2)
    /\ contextMenu' = NoMenu
    /\ UNCHANGED <<selectedElementIds, editingDrawing, moves, uploads, reads, isGenerating, generatedImages, calls, modal, downloads, decoding>>
    /\ Did("bringToFront")

\* bringToFront
BringToFront ==
    /\ MainUiReachable
    /\ Cardinality(selectedElementIds) # 0
    /\ LET maxZ == MaxZ(elements)
           selectedSet == selectedElementIds
           Raised(el) == IF el.id \in selectedSet THEN WithZIndex(el, JsAdd(maxZ, 1)) ELSE el
       IN  /\ SetElements(Map(elements, Raised), TRUE)
           /\ zIndexCounter' = JsAdd(maxZ, 2)
    /\ contextMenu' = NoMenu
    /\ UNCHANGED <<selectedElementIds, editingDrawing, moves, uploads, reads, isGenerating, generatedImages, calls, modal, downloads, decoding>>
    /\ Did("bringToFront")

\* sendToBack
SendToBack ==
    /\ MainUiReachable
    /\ Cardinality(selectedElementIds) # 0
    /\ LET minZ == MinZ(elements)
           selectedSet == selectedElementIds
           Lowered(el) == IF el.id \in selectedSet THEN WithZIndex(el, JsAdd(minZ, -1)) ELSE el
       IN  SetElements(Map(elements, Lowered), TRUE)
    /\ contextMenu' = NoMenu
    /\ UNCHANGED <<selectedElementIds, zIndexCounter, editingDrawing, moves, uploads, reads, isGenerating, generatedImages, calls, modal, downloads, decoding>>
    /\ Did("sendToBack")

\* newColor.replace('bg-', 'text-') on the palette tokens
TextColor(newColor) ==
    IF newColor = "bg-red-500" THEN "text-red-500" ELSE newColor

selectedElements == SelectSeq(elements, LAMBDA el : el.id \in selectedElementIds)

canChangeColor ==
    \E i \in 1..Len(selectedElements) :
        selectedElements[i].type \in {"note", "arrow"}

\* handleColorChange
HandleColorChange ==
    /\ MainUiReachable
    /\ canChangeColor
    /\ \E newColor \in COLORS :
          LET selectedSet == selectedElementIds
              Recolored(el) ==
                  IF el.id \in selectedSet
                  THEN IF el.type = "note" THEN [el EXCEPT !.color = newColor]
                       ELSE IF el.type = "arrow" THEN [el EXCEPT !.color = TextColor(newColor)]
                       ELSE el
                  ELSE el
          IN  SetElements(Map(elements, Recolored), TRUE)
    /\ contextMenu' = NoMenu
    /\ UNCHANGED <<selectedElementIds, zIndexCounter, editingDrawing, moves, uploads, reads, isGenerating, generatedImages, calls, modal, downloads, decoding>>
    /\ Did("colorChange")

----------------------------------------------------------------------------
(* Image generation: the request, its service calls, the candidate dialog.
   The API key is taken to be set; without it handleGenerate does nothing. *)

\* the candidates the service returns, as data URLs
Candidates == <<"data:image/png;base64,GEN1", "data:image/png;base64,GEN2">>

\* generateSingleImage: an image, a response without image part, a rejection
EditOutcomes == {"image", "none", "failed"}

\* generateImages: two images, an empty list, no list at all, a rejection
TextOutcomes == {"images", "empty", "absent", "failed"}

\* the candidate dialog is rendered
DialogShown == generatedImages # NoImages /\ Len(generatedImages[1]) > 0

\* The spinner and the candidate dialog cover the viewport as well, so the
\* pointer reaches the canvas and its toolbar only when neither is rendered.
PointerReachable == MainUiReachable /\ ~isGenerating /\ ~DialogShown

NoCalls == <<>>

\* handleGenerate up to its first await
HandleGenerate ==
    /\ PointerReachable
    /\ LET imageElements ==
               SelectSeq(selectedElements, LAMBDA el : el.type \in {"image", "drawing"})
           noteElements == SelectSeq(selectedElements, LAMBDA el : el.type = "note")
       IN  IF Len(imageElements) = 0 /\ Len(noteElements) = 0
           THEN UNCHANGED <<isGenerating, generatedImages, calls>>
           ELSE /\ isGenerating' = TRUE
                /\ generatedImages' = NoImages
                /\ calls' = IF Len(imageElements) > 0
                            THEN <<[mode |-> "edit", results |-> <<"pending", "pending">>]>>
                            ELSE <<[mode |-> "text", results |-> <<"pending">>]>>
    /\ contextMenu' = NoMenu
    /\ UNCHANGED <<history, currentIndex, selectedElementIds, zIndexCounter,
                   editingDrawing, moves, uploads, reads, modal, downloads, decoding>>
    /\ Did("generate")

\* [image1, image2].filter(img => img !== null)
ValidImages(results) ==
    LET kept == SelectSeq(<<1, 2>>, LAMBDA k : results[k] = "image")
    IN  [j \in 1..Len(kept) |-> Candidates[kept[j]]]

\* an edit request that shows what arrived although one call was rejected
AfterEditCallPartial(results) ==
    IF \E k \in 1..2 : results[k] = "failed"
    THEN [isGenerating |-> FALSE, generatedImages |-> <<ValidImages(results)>>,
          calls |-> NoCalls]
    ELSE IF \E k \in 1..2 : results[k] = "pending"
    THEN [isGenerating |-> isGenerating, generatedImages |-> generatedImages,
          calls |-> <<[mode |-> "edit", results |-> results]>>]
    ELSE [isGenerating |-> FALSE, generatedImages |-> <<ValidImages(results)>>,
          calls |-> NoCalls]

\* What the edit request comes to once its calls stand at results: a
\* rejection rejects Promise.all at once (catch, finally); while a call is
\* pending the request waits; with both fulfilled the candidates are set.
AfterEditCall(results) ==
    IF \E k \in 1..2 : results[k] = "failed"
    THEN [isGenerating |-> FALSE, generatedImages |-> generatedImages,
          calls |-> NoCalls]
    ELSE IF \E k \in 1..2 : results[k] = "pending"
    THEN [isGenerating |-> isGenerating, generatedImages |-> generatedImages,
          calls |-> <<[mode |-> "edit", results |-> results]>>]
    ELSE [isGenerating |-> FALSE, generatedImages |-> <<ValidImages(results)>>,
          calls |-> NoCalls]

\* the request after generateImages came to outcome
AfterTextCall(outcome) ==
    [isGenerating |-> FALSE,
     generatedImages |-> IF outcome = "images" THEN <<Candidates>>
                         ELSE IF outcome = "empty" THEN << <<>> >>
                         ELSE generatedImages,
     calls |-> NoCalls]

GenerationStep(after, op) ==
    /\ isGenerating' = after.isGenerating
    /\ generatedImages' = after.generatedImages
    /\ calls' = after.calls
    /\ UNCHANGED <<history, currentIndex, selectedElementIds, zIndexCounter,
                   editingDrawing, moves, uploads, reads, modal, downloads, decoding, contextMenu>>
    /\ Did(op)

\* one of the two generateSingleImage calls settles
GenerateSingleImageSettles ==
    /\ calls # NoCalls
    /\ calls[1].mode = "edit"
    /\ \E k \in 1..2, outcome \in EditOutcomes :
          /\ calls[1].results[k] = "pending"
          /\ LET results == [calls[1].results EXCEPT ![k] = outcome]
                 other == calls[1].results[3 - k]
             IN  GenerationStep(AfterEditCall(results),
                     IF outcome = "failed"
                     THEN IF other = "pending" THEN "generationFailed"
                          ELSE "oneCallFailed"
                     ELSE IF other = "pending" THEN "callFulfilled"
                     ELSE "generated")

\* the generateImages call settles
GenerateImagesSettles ==
    /\ calls # NoCalls
    /\ calls[1].mode = "text"
    /\ \E outcome \in TextOutcomes :
          GenerationStep(AfterTextCall(outcome),
              IF outcome = "failed" THEN "generationFailed" ELSE "generated")

\* the dialog's Close button, its close mark, a click on its backdrop
CloseGeneratedImages ==
    /\ DialogShown
    /\ generatedImages' = NoImages
    /\ contextMenu' = NoMenu
    /\ UNCHANGED <<history, currentIndex, selectedElementIds, zIndexCounter,
                   editingDrawing, moves, uploads, reads, isGenerating, calls,
                   modal, downloads, decoding>>
    /\ Did("closeGeneratedImages")

\* addGeneratedImageToCanvas up to img.src = src: the decode starts
AddGeneratedImageToCanvas ==
    /\ DialogShown
    /\ \E k \in 1..Len(generatedImages[1]) :
          decoding' = Append(decoding, generatedImages[1][k])
    /\ contextMenu' = NoMenu
    /\ UNCHANGED <<history, currentIndex, selectedElementIds, zIndexCounter,
                   editingDrawing, moves, uploads, reads, isGenerating,
                   generatedImages, calls, modal, downloads>>
    /\ Did("addGeneratedImage")

MAX_DIMENSION_GENERATED == 400

\* natural size of a generated image
GeneratedSize == [width |-> 1024, height |-> 1024]

\* the size given to a generated image (App.tsx:448-457)
FitGenerated(size) ==
    IF size.width > MAX_DIMENSION_GENERATED \/ size.height > MAX_DIMENSION_GENERATED
    THEN IF size.width > size.height
         THEN [width |-> MAX_DIMENSION_GENERATED,
               height |-> (size.height * MAX_DIMENSION_GENERATED) \div size.width]
         ELSE [width |-> (size.width * MAX_DIMENSION_GENERATED) \div size.height,
               height |-> MAX_DIMENSION_GENERATED]
    ELSE size

\* img.onload of addGeneratedImageToCanvas, for the i-th decode going on
GeneratedImageDecoded ==
    /\ \E i \in 1..Len(decoding), p \in Positions, newId \in GeneratedIds :
          /\ AddElement([type |-> "image", position |-> p, src |-> decoding[i],
                         width |-> FitGenerated(GeneratedSize).width,
                         height |-> FitGenerated(GeneratedSize).height,
                         rotation |-> 0], newId)
          /\ decoding' = Without(decoding, i)
    /\ UNCHANGED contextMenu
    /\ Did("generatedImageDecoded")

----------------------------------------------------------------------------
(* Drawing modal (part_000): the surface, its own undo history, the strokes *)

\* The 1200 x 900 surface is kept as two pixels; a pixel is white, inked or
\* transparent. Brush colour and size are left out: a pencil mark is "ink".
Cells == {1, 2}

Pixels == {"white", "ink", "clear"}

Surfaces == [Cells -> Pixels]

\* the surface after fillRect with fillStyle 'white' on a fresh context
White == [c \in Cells |-> "white"]

PixelCode(p) == IF p = "white" THEN "W" ELSE IF p = "ink" THEN "K" ELSE "T"

\* canvas.toDataURL('image/png'): PNG keeps every pixel, transparency included
ToDataURL(canvas) ==
    "data:image/png;base64," \o PixelCode(canvas[1]) \o PixelCode(canvas[2])

\* the payloads a drawing element can carry after a save
DataUrls == {ToDataURL(c) : c \in Surfaces}

\* the bitmap an Image decodes from a payload
Decoded(src) == CHOOSE c \in Surfaces : ToDataURL(c) = src

\* What a paint call (fillRect, stroke, drawImage) leaves on the surface under
\* context.globalCompositeOperation: 'source-over' puts the opaque source
\* pixels on top, 'destination-out' makes the surface transparent under them.
Composite(op, dest, src) ==
    [c \in Cells |->
        IF src[c] = "clear" THEN dest[c]
        ELSE IF op = "source-over" THEN src[c] ELSE "clear"]

\* the pencil or eraser passing over one pixel
Mark(cell) == [c \in Cells |-> IF c = cell THEN "ink" ELSE "clear"]

\* prev.slice(0, end)
Slice(prev, end) ==
    IF end <= 0 THEN <<>>
    ELSE IF end >= Len(prev) THEN prev
    ELSE SubSeq(prev, 1, end)

\* saveHistoryState that keeps the entries beyond the cursor
SaveHistoryStateAppending(m, closureIndex) ==
    [m EXCEPT !.history = m.history \o <<m.canvas>>,
              !.historyIndex = m.historyIndex + 1]

\* saveHistoryState of the render in which historyIndex was closureIndex
SaveHistoryState(m, closureIndex) ==
    [m EXCEPT !.history = Slice(m.history, closureIndex + 1) \o <<m.canvas>>,
              !.historyIndex = m.historyIndex + 1]

\* The mount effect: the surface is filled white; a drawing with a payload
\* starts decoding it, one without gets its first entry at once. The effect
\* keeps the saveHistoryState of the first render, in which historyIndex = -1.
Mounted(element) ==
    LET fresh == [history |-> <<>>, historyIndex |-> -1, isDrawing |-> FALSE,
                  tool |-> "pencil", composite |-> "source-over",
                  canvas |-> White, img |-> <<>>]
    IN  IF Has(element, "src") /\ element.src # ""
        THEN [fresh EXCEPT !.img = <<element.src>>]
        ELSE SaveHistoryState(fresh, -1)

ModalCanUndo(m) == m.historyIndex > 0

ModalCanRedo(m) == m.historyIndex < Len(m.history) - 1

ModalOpen == editingDrawing # NoDrawing

ModalStep(op) ==
    /\ UNCHANGED <<history, currentIndex, selectedElementIds, zIndexCounter,
                   editingDrawing, moves, uploads, reads, isGenerating,
                   generatedImages, calls, downloads, decoding, contextMenu>>
    /\ Did(op)

\* img.onload of loadAndInitialize
ImageDecoded ==
    /\ ModalOpen
    /\ modal.img # <<>>
    /\ LET drawn == [modal EXCEPT
                        !.canvas = Composite(modal.composite, modal.canvas,
                                             Decoded(modal.img[1])),
                        !.img = <<>>]
       IN  modal' = SaveHistoryState(drawn, -1)
    /\ ModalStep("imageDecoded")

\* the Pencil and Eraser buttons
SetTool ==
    /\ ModalOpen
    /\ \E t \in {"pencil", "eraser"} : modal' = [modal EXCEPT !.tool = t]
    /\ ModalStep("setTool")

\* startDrawing: mouse down on the surface
StartDrawing ==
    /\ ModalOpen
    /\ modal' = [modal EXCEPT
                    !.composite = IF modal.tool = "pencil" THEN "source-over"
                                  ELSE "destination-out",
                    !.isDrawing = TRUE]
    /\ ModalStep("startDrawing")

\* draw: mouse move over the surface
Draw ==
    /\ ModalOpen
    /\ \E cell \in Cells :
          modal' = IF modal.isDrawing
                   THEN [modal EXCEPT !.canvas =
                            Composite(modal.composite, modal.canvas, Mark(cell))]
                   ELSE modal
    /\ ModalStep("draw")

\* finishDrawing without a look at isDrawing
FinishDrawingAlways(m) == SaveHistoryState([m EXCEPT !.isDrawing = FALSE], m.historyIndex)

\* finishDrawing
FinishDrawing(m) ==
    IF m.isDrawing
    THEN SaveHistoryState([m EXCEPT !.isDrawing = FALSE], m.historyIndex)
    ELSE m

\* onMouseUp of the surface
MouseUp ==
    /\ ModalOpen
    /\ modal' = FinishDrawing(modal)
    /\ ModalStep("mouseUp")

\* onMouseLeave of the surface
MouseLeave ==
    /\ ModalOpen
    /\ modal' = FinishDrawing(modal)
    /\ ModalStep("mouseLeave")

\* clearCanvas: the Clear button
ClearCanvas ==
    /\ ModalOpen
    /\ LET filled == [modal EXCEPT !.canvas =
                         Composite(modal.composite, modal.canvas, White)]
       IN  modal' = SaveHistoryState(filled, modal.historyIndex)
    /\ ModalStep("clearCanvas")

\* undo without a look at canUndo
ModalUndoUnguarded(m) ==
    LET newIndex == m.historyIndex - 1
    IN  [m EXCEPT !.historyIndex = newIndex,
                  !.canvas = IF newIndex + 1 \in 1..Len(m.history)
                             THEN m.history[newIndex + 1] ELSE m.canvas]

\* undo of the modal: the Undo button, Ctrl+Z
ModalUndo(m) ==
    IF ModalCanUndo(m)
    THEN LET newIndex == m.historyIndex - 1
         IN  [m EXCEPT !.historyIndex = newIndex,
                       !.canvas = IF newIndex + 1 \in 1..Len(m.history)
                                  THEN m.history[newIndex + 1] ELSE m.canvas]
    ELSE m

\* redo of the modal: the Redo button, Ctrl+Shift+Z, Ctrl+Y
ModalRedo(m) ==
    IF ModalCanRedo(m)
    THEN LET newIndex == m.historyIndex + 1
         IN  [m EXCEPT !.historyIndex = newIndex,
                       !.canvas = IF newIndex + 1 \in 1..Len(m.history)
                                  THEN m.history[newIndex + 1] ELSE m.canvas]
    ELSE m

DrawingUndo ==
    /\ ModalOpen
    /\ modal' = ModalUndo(modal)
    /\ ModalStep("drawingUndo")

DrawingRedo ==
    /\ ModalOpen
    /\ modal' = ModalRedo(modal)
    /\ ModalStep("drawingRedo")

----------------------------------------------------------------------------
(* Drawing session, as far as the Document is concerned *)

\* elements.find(el => el.id === elementId)
Find(els, elementId) ==
    LET hits == {i \in 1..Len(els) : els[i].id = elementId}
    IN  IF hits = {} THEN <<>> ELSE <<els[SetMin(hits)]>>

\* handleEditDrawing(elementId)
HandleEditDrawing ==
    /\ MainUiReachable
    /\ \E elementId \in Range(ElementIds(elements)) :
          LET element == Find(elements, elementId)
          IN  /\ element # <<>>
              /\ element[1].type = "drawing"
              /\ editingDrawing' = element
              /\ modal' = Mounted(element[1])
    /\ contextMenu' = NoMenu
    /\ UNCHANGED <<history, currentIndex, selectedElementIds, zIndexCounter, moves,
                   uploads, reads, isGenerating, generatedImages, calls, downloads, decoding>>
    /\ Did("editDrawing")

\* handleSaveDrawing(elementId, dataUrl), called by the modal's Save button
\* with the id of the element it was opened on
HandleSaveDrawing ==
    /\ editingDrawing # NoDrawing
    /\ LET dataUrl == ToDataURL(modal.canvas)
           elementId == editingDrawing[1].id
           Saved(el) == IF el.id = elementId
                        THEN [f \in DOMAIN el \cup {"src"} |->
                                 IF f = "src" THEN dataUrl ELSE el[f]]
                        ELSE el
       IN  SetElements(Map(elements, Saved), TRUE)
    /\ editingDrawing' = NoDrawing
    /\ modal' = NoModal
    /\ UNCHANGED <<selectedElementIds, zIndexCounter, moves,
                   uploads, reads, isGenerating, generatedImages, calls, downloads, decoding, contextMenu>>
    /\ Did("saveDrawing")

\* a close that writes the surface back like a save
CloseDrawingSaving ==
    /\ editingDrawing # NoDrawing
    /\ LET Saved(el) == IF el.id = editingDrawing[1].id
                        THEN [f \in DOMAIN el \cup {"src"} |->
                                 IF f = "src" THEN ToDataURL(modal.canvas) ELSE el[f]]
                        ELSE el
       IN  SetElements(Map(elements, Saved), TRUE)
    /\ editingDrawing' = NoDrawing
    /\ modal' = NoModal
    /\ UNCHANGED <<selectedElementIds, zIndexCounter, moves,
                   uploads, reads, isGenerating, generatedImages, calls, downloads, decoding, contextMenu>>
    /\ Did("closeDrawing")

\* the modal's onClose: Cancel, the close button, a click on the backdrop
CloseDrawing ==
    /\ editingDrawing # NoDrawing
    /\ editingDrawing' = NoDrawing
    /\ modal' = NoModal
    /\ UNCHANGED <<history, currentIndex, selectedElementIds, zIndexCounter, moves,
                   uploads, reads, isGenerating, generatedImages, calls, downloads, decoding, contextMenu>>
    /\ Did("closeDrawing")

----------------------------------------------------------------------------
(* Import *)

ImportedNote(id, fields) ==
    [id |-> id, type |-> "note", position |-> Point(0, 0), width |-> 150,
     height |-> 100, rotation |-> 0, content |-> "imported",
     color |-> "bg-red-500"] @@ fields

\* What JSON.parse makes of the chosen file: it throws, or yields a value
\* that is an array of records or something else.
ImportFiles == {
    [kind |-> "unparseable"],
    [kind |-> "object"],
    [kind |-> "array", items |-> <<>>],
    [kind |-> "array", items |-> <<[type |-> "note", zIndex |-> 1]>>],
    [kind |-> "array", items |-> <<ImportedNote(0, [zIndex |-> 1])>>],
    [kind |-> "array", items |-> <<ImportedNote(7, [zIndex |-> 1]),
                                   ImportedNote(7, [zIndex |-> 3])>>],
    [kind |-> "array", items |-> <<ImportedNote(8, <<>>)>>] }

\* null as an entry of the parsed array
JsonNull == [jsonNull |-> TRUE]

\* files that hold something else than records after the first entry
MalformedFiles == {
    [kind |-> "array", items |-> <<ImportedNote(7, [zIndex |-> 9]), JsonNull>>],
    [kind |-> "array", items |-> <<JsonNull>>] }

\* !importedElements[0].id : the id is missing or the empty string, or the
\* entry is null and reading its id throws
LacksId(rec) == ~Has(rec, "id") \/ rec.id = 0

\* el.zIndex throws a TypeError on a null entry
MapThrows(importedElements) ==
    \E i \in 1..Len(importedElements) : importedElements[i] = JsonNull

\* the file passes JSON.parse and the basic validation
ImportAccepted(file) ==
    /\ file.kind = "array"
    /\ ~(Len(file.items) > 0 /\ LacksId(file.items[1]))

\* reader.onload that takes every array for a canvas
HandleImportCanvasUnvalidated(file) ==
    IF file.kind = "array"
    THEN /\ SetElements(file.items, TRUE)
         /\ zIndexCounter' = zIndexCounter
    ELSE UNCHANGED <<history, currentIndex, zIndexCounter>>

\* reader.onload of handleImportCanvas: whatever throws inside the try block
\* ends it there, and what was done before stays done
HandleImportCanvas(file) ==
    IF ImportAccepted(file)
    THEN LET importedElements == file.items
             maxZ == MathMax({0} \cup {ZIndexOrZero(importedElements[i]) :
                                          i \in 1..Len(importedElements)})
         IN  /\ SetElements(importedElements, TRUE)
             /\ zIndexCounter' = IF MapThrows(importedElements)
                                 THEN zIndexCounter
                                 ELSE JsAdd(maxZ, 1)
    ELSE UNCHANGED <<history, currentIndex, zIndexCounter>>

\* a file that passes the validation is read
ImportCanvas ==
    /\ \E file \in ImportFiles :
          /\ ImportAccepted(file)
          /\ HandleImportCanvas(file)
    /\ UNCHANGED <<selectedElementIds, editingDrawing, moves, uploads, reads, isGenerating, generatedImages, calls, modal, downloads, decoding, contextMenu>>
    /\ Did("import")

\* reader.onload for one given file
ImportOf(file) ==
    /\ HandleImportCanvas(file)
    /\ UNCHANGED <<selectedElementIds, editingDrawing, moves, uploads, reads, isGenerating, generatedImages, calls, modal, downloads, decoding, contextMenu>>
    /\ Did("import")

\* a file that fails JSON.parse or the validation is read
ImportRejected ==
    /\ \E file \in ImportFiles :
          /\ ~ImportAccepted(file)
          /\ HandleImportCanvas(file)
    /\ UNCHANGED <<selectedElementIds, editingDrawing, moves, uploads, reads, isGenerating, generatedImages, calls, modal, downloads, decoding, contextMenu>>
    /\ Did("importRejected")

\* The render of App reads el.id of every element (selectedElements); on a
\* null entry it throws and React takes the whole tree down.
RenderThrows == \E i \in 1..Len(elements) : elements[i] = JsonNull

\* JSON.stringify of a number
JsonNumber(v) == IF IsNaN(v) THEN NullNumber ELSE v

\* JSON.stringify of one element: a NaN is written as null, a key that is
\* not there is not written, everything else is written as it is
Stringified(el) ==
    [f \in DOMAIN el |->
        IF f \in {"zIndex", "width", "height", "rotation"}
        THEN JsonNumber(el[f]) ELSE el[f]]

\* The file handleExportCanvas writes, given as what JSON.parse reads back
\* from it: an array with one record for each element, in order.
Exported(els) ==
    [kind |-> "array", items |-> [i \in 1..Len(els) |-> Stringified(els[i])]]

\* handleExportCanvas: the browser saves the file
HandleExportCanvas ==
    /\ MainUiReachable
    /\ downloads' = downloads \cup {[of |-> elements, file |-> Exported(elements)]}
    /\ contextMenu' = NoMenu
    /\ UNCHANGED <<history, currentIndex, selectedElementIds, zIndexCounter,
                   editingDrawing, moves, uploads, reads, isGenerating,
                   generatedImages, calls, modal, decoding>>
    /\ Did("export")

\* the exported files at hand
Downloaded == {d.file : d \in downloads}

\* handleImportCanvas: a file is chosen and the FileReader starts reading it
ChooseImportFile(files) ==
    /\ MainUiReachable
    /\ \E file \in files : reads' = Append(reads, file)
    /\ contextMenu' = NoMenu
    /\ UNCHANGED <<history, currentIndex, selectedElementIds, zIndexCounter,
                   editingDrawing, moves, uploads, isGenerating,
                   generatedImages, calls, modal, downloads, decoding>>
    /\ Did("chooseImportFile")

\* reader.onload of the i-th read still going on; reads end in any order
ImportLoaded(i) ==
    /\ i \in 1..Len(reads)
    /\ HandleImportCanvas(reads[i])
    /\ reads' = Without(reads, i)
    /\ UNCHANGED <<selectedElementIds, editingDrawing, moves, uploads,
                   isGenerating, generatedImages, calls, modal, downloads, decoding, contextMenu>>
    /\ Did(IF ImportAccepted(reads[i]) THEN "import" ELSE "importRejected")

----------------------------------------------------------------------------
(* Undo and redo *)

\* the hook's undo()
Undo ==
    /\ MainUiReachable
    /\ currentIndex' = UndoIndex(history, currentIndex)
    /\ contextMenu' \in {contextMenu, NoMenu}
    /\ UNCHANGED <<history, selectedElementIds, zIndexCounter, editingDrawing,
                   moves, uploads, reads, isGenerating, generatedImages, calls, modal, downloads, decoding>>
    /\ Did("undo")

\* the hook's redo()
Redo ==
    /\ MainUiReachable
    /\ currentIndex' = RedoIndex(history, currentIndex)
    /\ contextMenu' \in {contextMenu, NoMenu}
    /\ UNCHANGED <<history, selectedElementIds, zIndexCounter, editingDrawing,
                   moves, uploads, reads, isGenerating, generatedImages, calls, modal, downloads, decoding>>
    /\ Did("redo")

----------------------------------------------------------------------------
(* Keyboard: one keydown event reaches the listener of App and, while the
   drawing modal is mounted, the listener of the modal *)

\* Delete or Backspace; Ctrl/Cmd+Z, Ctrl/Cmd+Shift+Z, Ctrl/Cmd+Y, pressed
\* outside of text fields
Keys == {"Delete", "z", "Z", "y"}

\* the listener of App without its look at editingDrawing
HandleKeyDownUnguarded(key) ==
    IF key = "Delete"
    THEN IF Cardinality(selectedElementIds) = 0
         THEN UNCHANGED <<history, currentIndex, selectedElementIds>>
         ELSE /\ SetElements(SelectSeq(elements,
                      LAMBDA el : el.id \notin selectedElementIds), TRUE)
              /\ selectedElementIds' = {}
    ELSE /\ currentIndex' = IF key = "z" THEN UndoIndex(history, currentIndex)
                            ELSE RedoIndex(history, currentIndex)
         /\ UNCHANGED <<history, selectedElementIds>>

\* handleKeyDown of App
HandleKeyDown(key) ==
    IF editingDrawing # NoDrawing
    THEN UNCHANGED <<history, currentIndex, selectedElementIds>>
    ELSE IF key = "Delete"
    THEN IF Cardinality(selectedElementIds) = 0
         THEN UNCHANGED <<history, currentIndex, selectedElementIds>>
         ELSE /\ SetElements(SelectSeq(elements,
                      LAMBDA el : el.id \notin selectedElementIds), TRUE)
              /\ selectedElementIds' = {}
    ELSE /\ currentIndex' = IF key = "z" THEN UndoIndex(history, currentIndex)
                            ELSE RedoIndex(history, currentIndex)
         /\ UNCHANGED <<history, selectedElementIds>>

\* handleKeyDown of the modal
ModalKeyDown(m, key) ==
    IF key = "z" THEN ModalUndo(m)
    ELSE IF key \in {"Z", "y"} THEN ModalRedo(m)
    ELSE m

\* a key is pressed
KeyDown(key) ==
    /\ HandleKeyDown(key)
    /\ modal' = IF ModalOpen THEN ModalKeyDown(modal, key) ELSE modal
    /\ UNCHANGED <<zIndexCounter, editingDrawing, moves, uploads, reads,
                   isGenerating, generatedImages, calls, downloads, decoding, contextMenu>>
    /\ Did("keyDown")

----------------------------------------------------------------------------
(* Properties *)

\* the Document one undo() would show
UndoneElements == history[UndoIndex(history, currentIndex) + 1]

CommitOps == CreateOps \cup {"imageBatch", "interactionEnd", "delete", "bringToFront", "sendToBack",
                             "colorChange", "saveDrawing", "import"}

\* C1: wherever canUndo holds, undo followed by redo comes back to the same
\* cursor, hence (undo and redo leave the entries alone) to the same Document.
UndoRedoRoundTrip ==
    canUndo =>
        LET undone == UndoIndex(history, currentIndex)
            redone == RedoIndex(history, undone)
        IN  /\ redone = currentIndex
            /\ history[redone + 1] = elements

\* C1 witness: a redo has run and left the cursor between older and newer entries
UndoRedoRoundTripWitness == canUndo /\ canRedo /\ lastOp = "redo"

\* C2: while a run of k >= 1 merges is open, the number of entries and the
\* cursor (hence canUndo) are what they were before its first merge; once the
\* gesture end has committed, the cursor is exactly one further, for every k.
GestureBatching ==
    /\ (gesture.n >= 1 /\ ~gesture.ended) =>
           /\ Len(history) = gesture.len0
           /\ currentIndex = gesture.idx0
    /\ (gesture.n >= 1 /\ gesture.ended) => currentIndex = gesture.idx0 + 1

\* C2 witness: a gesture of two merges has been committed
GestureBatchingWitness == gesture.ended /\ gesture.n >= 2 /\ lastOp = "interactionEnd"

\* C3: after a gesture of one or more merges and its commit, one undo shows the
\* Document as it was before the gesture's first merge.
GestureUndoneAsOneStep ==
    (gesture.n >= 1 /\ gesture.ended) => UndoneElements = gesture.doc0

\* C4: a step of a committing handler leaves canRedo false, moves the cursor to
\* a new last entry and keeps exactly the entries up to the old cursor: those
\* that were ahead of it are gone.
CommitInvalidatesRedo ==
    [][lastOp' \in CommitOps =>
         /\ ~(currentIndex' < Len(history') - 1)
         /\ currentIndex' = currentIndex + 1
         /\ Len(history') = currentIndex + 2
         /\ SubSeq(history', 1, currentIndex + 1) = SubSeq(history, 1, currentIndex + 1)]_vars

\* C4 witness: a committing handler has run while redo entries existed
CommitInvalidatesRedoWitness == lastOp \in CommitOps /\ redoDropped /\ ~canRedo

\* C5: the cursor always points at an entry; at entry zero undo() keeps the
\* cursor, at the newest entry redo() keeps it; canUndo and canRedo say
\* exactly whether the cursor is off entry zero and off the newest entry, and
\* canUndo is false initially.
BoundaryInert ==
    /\ 0 <= currentIndex /\ currentIndex <= Len(history) - 1
    /\ currentIndex = 0 => UndoIndex(history, currentIndex) = currentIndex
    /\ currentIndex = Len(history) - 1 => RedoIndex(history, currentIndex) = currentIndex
    /\ canUndo <=> currentIndex # 0
    /\ canRedo <=> currentIndex # Len(history) - 1
    /\ lastOp = "init" => ~canUndo

\* C5 witness: undo has brought the cursor to entry zero, where undo is inert
BoundaryInertWitness == lastOp = "undo" /\ currentIndex = 0 /\ canRedo

\* C6: no selected id is absent from the current Document.
SelectionWithinDocument == selectedElementIds \subseteq Range(ElementIds(elements))

\* C7: a delete step with selection S leaves no element with an id in S, no id
\* of S selected, canUndo true, and the pre-delete Document one undo away.
DeleteContract ==
    [][lastOp' = "delete" =>
         /\ \A i \in 1..Len(history'[currentIndex' + 1]) :
                history'[currentIndex' + 1][i].id \notin selectedElementIds
         /\ selectedElementIds' \cap selectedElementIds = {}
         /\ currentIndex' > 0
         /\ history'[UndoIndex(history', currentIndex') + 1] = elements]_vars

\* C7 witness: a delete has removed something
DeleteContractWitness ==
    /\ lastOp = "delete"
    /\ canUndo
    /\ Len(elements) < Len(UndoneElements)

\* C8: no two elements of the current Document have the same id.
IdsUnique ==
    \A i, j \in 1..Len(elements) : i # j => elements[i].id # elements[j].id

\* C9: the element a creation has just appended has a z-order strictly greater
\* than that of every element that was already there.
CreateOnTop ==
    lastOp \in CreateOps =>
        \A i \in 1..(Len(elements) - 1) :
            JsLess(ZIndexOf(elements[i]), ZIndexOf(elements[Len(elements)]))

\* C10: the creation counter never decreases.
CounterMonotonic == [][~JsLess(zIndexCounter', zIndexCounter)]_vars

\* the greatest and the least z-order of a non-empty Document
DocMaxZ(els) == MathMax({ZIndexOf(els[i]) : i \in 1..Len(els)})

DocMinZ(els) == MathMin({ZIndexOf(els[i]) : i \in 1..Len(els)})

\* C11: a bring-to-front step gives every selected element the z-order
\* maxZ + 1, maxZ being the greatest z-order of the Document before the step,
\* and leaves everything else of every element as it was.
BringToFrontContract ==
    [][(lastOp' = "bringToFront" /\ Len(elements) > 0) =>
         /\ Len(elements') = Len(elements)
         /\ \A i \in 1..Len(elements) :
                elements'[i] =
                    IF elements[i].id \in selectedElementIds
                    THEN WithZIndex(elements[i], JsAdd(DocMaxZ(elements), 1))
                    ELSE elements[i]]_vars

\* C12: a send-to-back step gives every selected element the z-order
\* minZ - 1, minZ being the least z-order of the Document before the step,
\* and leaves every other element as it was.
SendToBackContract ==
    [][(lastOp' = "sendToBack" /\ Len(elements) > 0) =>
         /\ Len(elements') = Len(elements)
         /\ \A i \in 1..Len(elements) :
                elements'[i] =
                    IF elements[i].id \in selectedElementIds
                    THEN WithZIndex(elements[i], JsAdd(DocMinZ(elements), -1))
                    ELSE elements[i]]_vars

\* C13: after bring-to-front every selected element lies strictly above every
\* un-selected one, after send-to-back strictly below.
ReorderNeverCollides ==
    [][\A i, j \in 1..Len(elements') :
           (/\ elements'[i].id \in selectedElementIds
            /\ elements'[j].id \notin selectedElementIds) =>
               /\ lastOp' = "bringToFront" =>
                      JsLess(ZIndexOf(elements'[j]), ZIndexOf(elements'[i]))
               /\ lastOp' = "sendToBack" =>
                      JsLess(ZIndexOf(elements'[i]), ZIndexOf(elements'[j]))]_vars

\* C14: from the Document [A(z=0)] with the counter at 1, a creation gives the
\* new element z = 1; bringing A alone to front then gives A z = 2; undo then
\* shows A at z = 0 with the created element still there at z = 1; redo then
\* shows A at z = 2.
ScenarioZOrders ==
    /\ scenario = 1 => /\ elements = ScenarioFile.items
                       /\ zIndexCounter = 1
    /\ scenario \in 2..5 =>
           /\ Len(elements) = 2
           /\ elements[1].id = 9
           /\ ZIndexOf(elements[2]) = 1
           /\ ZIndexOf(elements[1]) = IF scenario \in {3, 5} THEN 2 ELSE 0

\* C14 witness: the scenario has been played to its end
ScenarioZOrdersWitness == scenario = 5 /\ lastOp = "redo"

\* the ids a click or a marquee can name
DocumentIds == Range(ElementIds(elements))

\* C15: whatever the selection is, a plain click on an element makes the
\* selection exactly that element.
PlainClickSelectsOne ==
    \A id \in DocumentIds : SelectedAfter(selectedElementIds, id, FALSE) = {id}

\* C15 as amended: a plain click on an element that is not selected makes the
\* selection exactly that element; on an element that is selected it leaves
\* the selection as it is.
PlainClickKeepsGroup ==
    \A id \in DocumentIds :
        SelectedAfter(selectedElementIds, id, FALSE) =
            IF id \in selectedElementIds THEN selectedElementIds ELSE {id}

\* C15 witness: clicks have built a selection of several elements next to an
\* element that is not selected
PlainClickKeepsGroupWitness ==
    /\ lastOp = "select"
    /\ Cardinality(selectedElementIds \cap DocumentIds) >= 2
    /\ DocumentIds \ selectedElementIds # {}

\* C16: a shift-click removes the element from the selection if it is there
\* and adds it if it is not; two shift-clicks on the same element give the
\* selection back.
ToggleLaw ==
    \A id \in DocumentIds :
        LET once == SelectedAfter(selectedElementIds, id, TRUE)
            twice == SelectedAfter(once, id, TRUE)
        IN  /\ id \in selectedElementIds => once = selectedElementIds \ {id}
            /\ id \notin selectedElementIds => once = selectedElementIds \cup {id}
            /\ twice = selectedElementIds

\* C16 witness: a shift-click has run on a selection that keeps other elements
ToggleLawWitness ==
    /\ lastOp = "select"
    /\ Cardinality(selectedElementIds) >= 2

\* C17: a shift-marquee makes the selection the union of the selection and
\* the enclosed ids; a plain marquee makes it exactly the enclosed ids.
MarqueeLaw ==
    \A ids \in SUBSET DocumentIds :
        /\ MarqueeSelectedAfter(selectedElementIds, ids, TRUE) = selectedElementIds \cup ids
        /\ selectedElementIds \subseteq MarqueeSelectedAfter(selectedElementIds, ids, TRUE)
        /\ MarqueeSelectedAfter(selectedElementIds, ids, FALSE) = ids

\* C17 witness: a marquee has left several elements selected
MarqueeLawWitness ==
    /\ lastOp = "marquee"
    /\ Cardinality(selectedElementIds) >= 2

\* an arrow's derived fields agree with its start and end points: position
\* is the midpoint, width the length of the vector, rotation its angle
\* (0 exactly for a vector pointing along the x axis)
ArrowDerived(el) ==
    LET dx == el.end.x - el.start.x
        dy == el.end.y - el.start.y
    IN  /\ 2 * el.position.x = el.start.x + el.end.x
        /\ 2 * el.position.y = el.start.y + el.end.y
        /\ el.width * el.width = dx * dx + dy * dy
        /\ el.rotation = 0 <=> (dy = 0 /\ dx > 0)

\* C18: every arrow of the current Document has its position at the midpoint
\* of its start and end points, and width and rotation that fit the vector
\* from start to end.
ArrowsConsistent ==
    \A i \in 1..Len(elements) :
        elements[i].type = "arrow" => ArrowDerived(elements[i])

\* the update just delivered, and whether it propagates
lastUpdated == gesture.updated[1]

Propagating ==
    /\ gesture.delta # Absent
    /\ Cardinality(selectedElementIds) > 1
    /\ lastUpdated.id \in selectedElementIds

Appended == SubSeq(elements', Len(elements) + 1, Len(elements'))

\* the file of a batch an uploaded image comes from, read off its position
FileOf(image, batch) == (image.position.x - batch.base.x) \div 20 + 1

\* C20: while files of a batch are still being read, a file that settles
\* changes neither the Document nor the history, nor does starting a batch.
\* The step that settles a batch's last file either leaves Document and
\* history alone, and then no file of the batch had loaded, or makes exactly
\* one commit that appends, in file order, one image for each file that
\* loaded and none for a file that failed, the earlier elements staying as
\* they were.
ImageBatchContract ==
    [][/\ (uploads' # uploads /\ Len(uploads') >= Len(uploads)) =>
             UNCHANGED <<history, currentIndex>>
       /\ Len(uploads') < Len(uploads) =>
             \E b \in 1..Len(uploads) :
                 /\ uploads' = Without(uploads, b)
                 /\ LET batch == uploads[b]
                        loaded == {i \in 1..Len(batch.status) : batch.status[i] = "loaded"}
                        from == {FileOf(Appended[k], batch) : k \in 1..Len(Appended)}
                    IN  IF history' = history
                        THEN currentIndex' = currentIndex /\ loaded = {}
                        ELSE /\ currentIndex' = currentIndex + 1
                             /\ Len(history') = currentIndex + 2
                             /\ SubSeq(history', 1, currentIndex + 1)
                                    = SubSeq(history, 1, currentIndex + 1)
                             /\ SubSeq(elements', 1, Len(elements)) = elements
                             /\ Len(Appended) >= 1
                             /\ \A k \in 1..Len(Appended) : Appended[k].type = "image"
                             /\ \A k \in 1..(Len(Appended) - 1) :
                                    FileOf(Appended[k], batch) < FileOf(Appended[k + 1], batch)
                             /\ loaded \subseteq from
                             /\ from \subseteq loaded \cup Reading(b)]_vars

\* C20 witness: a batch of two files has been committed in which the first
\* file failed and the second loaded
ImageBatchContractWitness ==
    /\ lastOp = "imageBatch"
    /\ uploads = <<>>
    /\ Len(elements) = Len(UndoneElements) + 1
    /\ elements[Len(elements)].type = "image"
    /\ elements[Len(elements)].position.x
           = (CHOOSE p \in Positions : TRUE).x + 20

----------------------------------------------------------------------------
(* Import and export *)

\* what an accepted import leaves behind: the file's entries as the Document,
\* one entry on top of the entry at the cursor, a counter above every z-order
ImportedExactly(file) ==
    /\ elements' = file.items
    /\ currentIndex' = currentIndex + 1
    /\ history' = SubSeq(history, 1, currentIndex + 1) \o <<file.items>>
    /\ history'[UndoIndex(history', currentIndex') + 1] = elements
    /\ \A i \in 1..Len(file.items) :
          JsLess(ZIndexOrZero(file.items[i]), zIndexCounter')

\* C21: when a file that decodes to a sequence whose first record has an id
\* has been read, the Document is exactly that sequence, one history entry
\* has been added (one undo gives the Document of before) and the counter is
\* greater than every z-order of the file, a missing z-order counting as 0.
AcceptedImport ==
    [][\A i \in 1..Len(reads) :
          (ImportAccepted(reads[i]) /\ ImportLoaded(i)) => ImportedExactly(reads[i])]_vars

\* C22: when a file that does not parse, does not decode to a sequence, or
\* decodes to a non-empty sequence whose first record has no id has been
\* read, Document, history entries, cursor, counter and selection are as before.
RejectedImport ==
    [][\A i \in 1..Len(reads) :
          (~ImportAccepted(reads[i]) /\ ImportLoaded(i)) =>
              UNCHANGED <<history, currentIndex, zIndexCounter, selectedElementIds>>]_vars

RejectedImportWitness ==
    /\ lastOp = "importRejected"
    /\ currentIndex > 0
    /\ selectedElementIds # {}

\* C23: when a file exported from a Document D has been read, it has been
\* accepted and the Document is D again: the same elements in the same
\* order, each with the same attributes and the same z-order.
ExportImportRoundTrip ==
    [][\A i \in 1..Len(reads) : \A d \in downloads :
          (reads[i] = d.file /\ ImportLoaded(i)) =>
              ImportAccepted(d.file) /\ elements' = d.of]_vars

----------------------------------------------------------------------------
(* Generation *)

GenerationOps ==
    {"generate", "callFulfilled", "generated", "generationFailed", "oneCallFailed"}

\* C24: no step of a generation request (its start, a call that settles,
\* its end with candidates, with none, or with a rejection of one or both
\* calls) changes the Document or the history; when the request has failed
\* no candidate dialog is shown, and when it has ended in any way the
\* generating flag is false.
GenerationNeverCommits ==
    [][lastOp' \in GenerationOps =>
          /\ history' = history
          /\ currentIndex' = currentIndex
          /\ lastOp' \in {"generationFailed", "oneCallFailed"} =>
                 ~DialogShown' /\ generatedImages' = NoImages
          /\ lastOp' \in {"generated", "generationFailed", "oneCallFailed"} =>
                 ~isGenerating' /\ calls' = NoCalls]_vars

\* one of two calls has delivered an image and the other has been rejected,
\* on a Document with history
GenerationNeverCommitsWitness ==
    /\ lastOp = "oneCallFailed"
    /\ currentIndex > 0
    /\ ~isGenerating

----------------------------------------------------------------------------
(* Drawing sessions *)

\* C25: in an open session, undo with the raster cursor at entry 0 and redo
\* with the cursor at the newest entry leave surface, cursor and entries as
\* they are.
RasterBoundaryInert ==
    ModalOpen =>
        /\ modal.historyIndex = 0 => ModalUndo(modal) = modal
        /\ modal.historyIndex = Len(modal.history) - 1 => ModalRedo(modal) = modal

\* an undo has brought the cursor back to entry 0 of a longer history
RasterBoundaryInertWitness ==
    /\ ModalOpen
    /\ lastOp = "drawingUndo"
    /\ modal.historyIndex = 0
    /\ Len(modal.history) > 1

\* C26: a clear leaves the surface blank white and the raster history with
\* exactly one new entry after the entries up to the cursor, and one undo
\* after it gives the surface of just before the clear.
RasterClearUndoable ==
    [][ClearCanvas =>
          /\ modal'.canvas = White
          /\ modal'.history =
                 Slice(modal.history, modal.historyIndex + 1) \o <<modal'.canvas>>
          /\ ModalUndo(modal').canvas = modal.canvas]_vars

\* the element a session was opened on, as a position in the Document
Edited(k) ==
    /\ k \in 1..Len(elements)
    /\ elements[k].id = editingDrawing[1].id
    /\ \A j \in 1..(k - 1) : elements[j].id # editingDrawing[1].id

\* C27: a save adds exactly one Document history entry, in which only the
\* payload of the edited drawing differs from the Document of before, and
\* one Document undo after it gives the payload the session was opened on.
SaveIsOneCommit ==
    [][HandleSaveDrawing =>
          /\ currentIndex' = currentIndex + 1
          /\ history' = SubSeq(history, 1, currentIndex + 1) \o <<elements'>>
          /\ Len(elements') = Len(elements)
          /\ \A k \in 1..Len(elements) :
                IF Edited(k)
                THEN /\ elements'[k] =
                           [elements[k] EXCEPT !.src = ToDataURL(modal.canvas)]
                     /\ history'[UndoIndex(history', currentIndex') + 1][k].src
                           = editingDrawing[1].src
                ELSE elements'[k] = elements[k]]_vars

\* C28: closing the drawing modal without saving, and closing the candidate
\* dialog, leave the Document, the history entries and the cursor as they are.
CancellationNoEffect ==
    [][(CloseDrawing \/ CloseGeneratedImages) =>
          UNCHANGED <<history, currentIndex>>]_vars

CancellationNoEffectWitness ==
    /\ lastOp = "closeDrawing"
    /\ currentIndex > 0

\* the surface a session starts from: the payload painted on white, or white
InitialSurface(element) ==
    IF Has(element, "src") /\ element.src # ""
    THEN Composite("source-over", White, Decoded(element.src))
    ELSE White

\* C29: whenever the raster history of an open session has entries, entry 0
\* is the initial surface of the session: the element's payload if it has
\* one, else blank white; nothing is pushed before it.
RasterSessionOpen ==
    (ModalOpen /\ Len(modal.history) > 0) =>
        modal.history[1] = InitialSurface(editingDrawing[1])

\* C30: a pointer-up or a leave that ends a stroke appends exactly one entry,
\* the surface at that moment, after the entries up to the cursor; a
\* pointer-up or a leave with no stroke in progress changes nothing.
OneStrokeOneEntry ==
    [][(MouseUp \/ MouseLeave) =>
          IF modal.isDrawing
          THEN /\ modal'.history =
                      Slice(modal.history, modal.historyIndex + 1) \o <<modal.canvas>>
               /\ modal'.historyIndex = modal.historyIndex + 1
               /\ modal'.canvas = modal.canvas
               /\ ~modal'.isDrawing
          ELSE modal' = modal]_vars

\* a stroke made after an undo has ended: its entry has taken the place of
\* the entry undone
OneStrokeOneEntryWitness ==
    /\ ModalOpen
    /\ lastOp \in {"mouseUp", "mouseLeave"}
    /\ Len(modal.history) = 2
    /\ modal.historyIndex = 1
    /\ modal.history[2] # modal.history[1]
    /\ ~modal.isDrawing

\* C31: in an open session whose raster history has entries, the cursor
\* points at one of them, and while no stroke is in progress the surface is
\* the entry under the cursor.
RasterCursorValid ==
    (ModalOpen /\ Len(modal.history) > 0) =>
        /\ 0 <= modal.historyIndex
        /\ modal.historyIndex <= Len(modal.history) - 1
        /\ ~modal.isDrawing => modal.canvas = modal.history[modal.historyIndex + 1]

\* C32: while a drawing session is open, no step changes the Document or
\* its history (strokes, clear, raster undo and redo, and the keys that undo,
\* redo and delete on the Document), except the save, which adds one entry.
SessionLeavesDocument ==
    [][ModalOpen =>
          \/ UNCHANGED <<history, currentIndex>>
          \/ /\ HandleSaveDrawing
             /\ currentIndex' = currentIndex + 1
             /\ Len(history') = currentIndex + 2]_vars

\* Ctrl+Z has undone a raster entry in a session opened on a Document that
\* has an entry to undo and a selection to delete
SessionLeavesDocumentWitness ==
    /\ ModalOpen
    /\ lastOp = "keyDown"
    /\ modal.historyIndex < Len(modal.history) - 1
    /\ canUndo
    /\ selectedElementIds # {}

\* C33: an update for a dragged element that is not selected, or is the
\* only selected one, puts the updated element in the dragged element's place
\* and leaves every other element, the ids in order and the length as they
\* were.
SingleDragFrame ==
    [][\A i \in 1..Len(elements), d \in Deltas :
          LET updatedElement == DraggedTo(elements[i], d)
          IN  (/\ MainUiReachable
               /\ \/ updatedElement.id \notin selectedElementIds
                  \/ selectedElementIds = {updatedElement.id}
               /\ Update(updatedElement, d)) =>
                  /\ Len(elements') = Len(elements)
                  /\ ElementIds(elements') = ElementIds(elements)
                  /\ elements'[i] = updatedElement
                  /\ \A j \in 1..Len(elements) :
                        j # i => elements'[j] = elements[j]]_vars

\* C34: the context menu invoked on an element outside the selection makes
\* the selection that element alone; invoked on a selected element or on
\* empty canvas it leaves the selection as it was; the Document and its
\* history stay as they were in every case.
ContextMenuSelection ==
    [][\A elementId \in Range(ElementIds(elements)) \cup {Null} :
          (MainUiReachable /\ HandleContextMenu(elementId)) =>
              /\ selectedElementIds' =
                    IF elementId # Null /\ elementId \notin selectedElementIds
                    THEN {elementId}
                    ELSE selectedElementIds
              /\ UNCHANGED <<history, currentIndex>>]_vars

\* C35: a plain click on empty canvas empties the selection, a shift-click
\* on empty canvas leaves it as it was; neither changes the Document or its
\* history.
SelectNone ==
    [][\A shiftKey \in BOOLEAN :
          (MainUiReachable /\ HandleSelectElement(Null, shiftKey)) =>
              /\ selectedElementIds' = IF shiftKey THEN selectedElementIds ELSE {}
              /\ UNCHANGED <<history, currentIndex>>]_vars

\* a shift-click on empty canvas has closed the menu and kept the elements
\* that were selected
SelectNoneWitness ==
    /\ lastOp = "selectNone"
    /\ contextMenu = NoMenu
    /\ selectedElementIds # {}

----------------------------------------------------------------------------
(* The whole engine, explored within the bounds *)

\* a commit is explored while the cursor is below the bound
CommitRoom(depth) == currentIndex + 1 < depth

\* k more elements are created while Document and counter stay within bounds
RoomFor(k) ==
    /\ Len(elements) + k <= MaxElements
    /\ JsLess(JsAdd(zIndexCounter, k - 1), MaxCounter) \/ IsNaN(zIndexCounter)

CreateRoom == RoomFor(1)

FrontRoom == JsLess(JsAdd(MaxZ(elements), 1), MaxCounter) \/ IsNaN(MaxZ(elements))

BackRoom == JsLess(-MaxBack, MinZ(elements)) \/ IsNaN(MinZ(elements))

Next ==
    \/ CommitRoom(MaxHistory) /\ CreateRoom /\ AddNote
    \/ CommitRoom(MaxHistory) /\ CreateRoom /\ AddArrow
    \/ CommitRoom(MaxHistory) /\ CreateRoom /\ AddDrawing
    \/ \E n \in 1..MaxFiles : \E outcomes \in BatchResults(n) :
          CommitRoom(MaxHistory) /\ RoomFor(LoadedCount(outcomes)) /\ ImageUpload(outcomes)
    \/ ImageUploadAllFailed
    \/ SelectElement
    \/ MarqueeSelect
    \/ CommitRoom(MaxHistory) /\ HandleInteractionEnd
    \/ CommitRoom(MaxHistory) /\ DeleteElement
    \/ CommitRoom(MaxHistory) /\ FrontRoom /\ BringToFront
    \/ CommitRoom(MaxHistory) /\ BackRoom /\ SendToBack
    \/ CommitRoom(MaxHistory) /\ HandleColorChange
    \/ HandleEditDrawing
    \/ CommitRoom(MaxDepth) /\ HandleSaveDrawing
    \/ CloseDrawing
    \/ CommitRoom(MaxHistory) /\ ImportCanvas
    \/ ImportRejected
    \/ Undo
    \/ Redo

Spec == Init /\ [][Next]_vars

----------------------------------------------------------------------------
(* The history under gestures: pointer-move updates merged into the current
   entry, the commit at the gesture's end, creations, undo and redo, explored
   on a deeper history *)

NextHistory ==
    \/ CommitRoom(MaxDepth) /\ CreateRoom /\ AddNote
    \/ moves < MaxMoves /\ PointerMove
    \/ CommitRoom(MaxDepth) /\ HandleInteractionEnd
    \/ Undo
    \/ Redo

SpecHistory == Init /\ [][NextHistory]_vars

----------------------------------------------------------------------------
(* Reordering: selections, bring-to-front and send-to-back on the initial
   Document and on an imported one, with undo and redo *)

\* an exported canvas in which one record has lost its zIndex
ReorderFile ==
    [kind |-> "array", items |-> <<ImportedNote(7, [zIndex |-> 1]),
                                   ImportedNote(8, <<>>)>>]

NextReorder ==
    \/ SelectElement
    \/ MarqueeSelect
    \/ CommitRoom(MaxDepth) /\ FrontRoom /\ BringToFront
    \/ CommitRoom(MaxDepth) /\ BackRoom /\ SendToBack
    \/ CommitRoom(MaxDepth) /\ ImportOf(ReorderFile)
    \/ Undo
    \/ Redo

SpecReorder == Init /\ [][NextReorder]_vars

----------------------------------------------------------------------------
(* The reorder scenario: the Document [A(z=0)] comes from an import, which
   also puts the counter at 1 as a fresh engine on that Document has it *)

\* the scenario's steps are explored on short Documents
SmallDocument(k) == Len(elements) + k <= MaxSmall

NextScenario ==
    \/ CommitRoom(MaxSteps) /\ ImportOf(ScenarioFile)
    \/ CommitRoom(MaxSteps) /\ SmallDocument(1) /\ CreateRoom /\ AddNote
    \/ SmallDocument(0) /\ SelectElement
    \/ CommitRoom(MaxSteps) /\ SmallDocument(0) /\ FrontRoom /\ BringToFront
    \/ Undo
    \/ Redo

SpecScenario == Init /\ [][NextScenario]_vars

----------------------------------------------------------------------------
(* Selection: clicks and marquees over Documents that grow, shrink and are
   undone *)

NextSelect ==
    \/ SelectElement
    \/ MarqueeSelect
    \/ CommitRoom(MaxHistory) /\ CreateRoom /\ AddNote
    \/ CommitRoom(MaxHistory) /\ DeleteElement
    \/ Undo
    \/ Redo

SpecSelect == Init /\ [][NextSelect]_vars

----------------------------------------------------------------------------
(* Drags: arrows are created, elements are selected singly and in groups and
   dragged, gestures end, undo and redo *)

NextDrag ==
    \/ CommitRoom(MaxHistory) /\ CreateRoom /\ AddArrow
    \/ SelectElement
    \/ MarqueeSelect
    \/ moves < MaxDrags /\ PointerMove
    \/ moves < MaxDrags /\ PointerTurn
    \/ CommitRoom(MaxHistory) /\ HandleInteractionEnd
    \/ Undo
    \/ Redo

SpecDrag == Init /\ [][NextDrag]_vars

----------------------------------------------------------------------------
(* Image upload: batches of files are read while notes are created and the
   history is walked *)

\* the last file of batch b may settle with this outcome within the bounds
UploadRoom(b, outcome) ==
    \/ /\ outcome = "failed"
       /\ LoadedCount(uploads[b].status) = 0
    \/ /\ CommitRoom(MaxHistory)
       /\ Len(elements) + Len(uploads[b].status) <= MaxUploaded
       /\ JsLess(JsAdd(zIndexCounter, Len(uploads[b].status) - 1), MaxCounter)

NextUpload ==
    \/ Len(uploads) < MaxPending /\ HandleImageUpload
    \/ FileSettles
    \/ \E b \in 1..Len(uploads), outcome \in {"loaded", "failed"} :
          UploadRoom(b, outcome) /\ LastFileSettles(b, outcome)
    \/ CommitRoom(MaxHistory) /\ CreateRoom /\ AddNote
    \/ Undo
    \/ Redo

SpecUpload == Init /\ [][NextUpload]_vars

----------------------------------------------------------------------------
(* Import: files are chosen and read while notes are created and selected and
   the history is walked; after an import that leaves a null entry in the
   Document nothing is rendered any more *)

NextImport ==
    \/ ~RenderThrows /\ Len(reads) < MaxReads
          /\ ChooseImportFile(ImportFiles \cup MalformedFiles)
    \/ \E i \in 1..Len(reads) :
          /\ ~RenderThrows
          /\ ImportAccepted(reads[i]) => CommitRoom(MaxHistory)
          /\ ImportLoaded(i)
    \/ ~RenderThrows /\ CommitRoom(MaxHistory) /\ CreateRoom /\ AddNote
    \/ ~RenderThrows /\ SelectElement
    \/ ~RenderThrows /\ Undo
    \/ ~RenderThrows /\ Redo

SpecImport == Init /\ [][NextImport]_vars

----------------------------------------------------------------------------
(* Export and import: Documents that were created, imported and reordered
   are exported, changed further, and the exported file is imported again *)

NextRoundTrip ==
    \/ CommitRoom(MaxHistory) /\ CreateRoom /\ AddNote
    \/ CommitRoom(MaxHistory) /\ ImportOf(ReorderFile)
    \/ SelectElement
    \/ CommitRoom(MaxDepth) /\ FrontRoom /\ BringToFront
    \/ Cardinality(downloads) < MaxDownloads /\ HandleExportCanvas
    \/ Len(reads) < MaxReads /\ ChooseImportFile(Downloaded)
    \/ \E i \in 1..Len(reads) : CommitRoom(MaxDepth + 1) /\ ImportLoaded(i)

SpecRoundTrip == Init /\ [][NextRoundTrip]_vars

----------------------------------------------------------------------------
(* Generation: requests on selections of notes and drawings, their calls
   settling between keyboard undo, redo and delete, the candidate dialog *)

NextGenerate ==
    \/ PointerReachable /\ CommitRoom(MaxHistory) /\ CreateRoom /\ AddDrawing
    \/ PointerReachable /\ SelectElement
    \/ HandleGenerate
    \/ GenerateSingleImageSettles
    \/ GenerateImagesSettles
    \/ CloseGeneratedImages
    \/ Len(decoding) < MaxDecoding /\ AddGeneratedImageToCanvas
    \/ CommitRoom(MaxHistory) /\ CreateRoom /\ GeneratedImageDecoded
    \/ CommitRoom(MaxHistory) /\ DeleteElement
    \/ Undo
    \/ Redo

SpecGenerate == Init /\ [][NextGenerate]_vars

----------------------------------------------------------------------------
(* Drawing sessions: a drawing is created, opened, drawn on, cleared, saved
   or closed and opened again; the decode of its payload ends at any moment
   of the session *)

\* entries are appended to the raster history while it is shorter than the bound
RasterRoom == ModalOpen /\ Len(modal.history) < MaxRaster

\* A stroke in progress keeps the pressed pointer on the surface: the buttons
\* around it are reached only after onMouseLeave has ended the stroke.
ToolbarReachable == ModalOpen /\ ~modal.isDrawing

\* a file with two records of one id, the first of them a drawing
SessionFile ==
    [kind |-> "array",
     items |-> <<[id |-> 7, type |-> "drawing", position |-> Point(0, 0),
                  width |-> 400, height |-> 300, rotation |-> 0, src |-> "",
                  zIndex |-> 1],
                 ImportedNote(7, [zIndex |-> 2])>>]

NextRaster ==
    \/ CommitRoom(MaxSessions) /\ Len(elements) < MaxDrawings /\ CreateRoom
          /\ AddDrawing
    \/ currentIndex = 0 /\ ImportOf(SessionFile)
    \/ HandleEditDrawing
    \/ ModalOpen /\ RasterRoom /\ ImageDecoded
    \/ ToolbarReachable /\ SetTool
    \/ ToolbarReachable /\ StartDrawing
    \/ Draw
    \/ RasterRoom /\ MouseUp
    \/ RasterRoom /\ MouseLeave
    \/ ToolbarReachable /\ RasterRoom /\ ClearCanvas
    \/ DrawingUndo
    \/ DrawingRedo
    \/ ToolbarReachable /\ CommitRoom(MaxSessions) /\ HandleSaveDrawing
    \/ ToolbarReachable /\ CloseDrawing

SpecRaster == Init /\ [][NextRaster]_vars

----------------------------------------------------------------------------
(* Cancelling: drawing sessions that are closed after strokes, clears, undo
   and redo, and candidate dialogs that are closed *)

NextCancel ==
    \/ PointerReachable /\ CommitRoom(MaxHistory) /\ CreateRoom /\ AddDrawing
    \/ PointerReachable /\ SelectElement
    \/ HandleGenerate
    \/ GenerateSingleImageSettles
    \/ GenerateImagesSettles
    \/ CloseGeneratedImages
    \/ PointerReachable /\ HandleEditDrawing
    \/ ToolbarReachable /\ StartDrawing
    \/ Draw
    \/ RasterRoom /\ MouseUp
    \/ ToolbarReachable /\ RasterRoom /\ ClearCanvas
    \/ DrawingUndo
    \/ DrawingRedo
    \/ ToolbarReachable /\ CloseDrawing
    \/ Undo
    \/ Redo

SpecCancel == Init /\ [][NextCancel]_vars

----------------------------------------------------------------------------
(* Keys in and out of drawing sessions: drawings are created, selected,
   opened, drawn on, saved or closed, and keys are pressed at any moment *)

NextKeys ==
    \/ CommitRoom(MaxHistory) /\ Len(elements) < MaxDrawings /\ CreateRoom
          /\ AddDrawing
    \/ SelectElement
    \/ HandleEditDrawing
    \/ ModalOpen /\ RasterRoom /\ ImageDecoded
    \/ ToolbarReachable /\ StartDrawing
    \/ Draw
    \/ RasterRoom /\ MouseUp
    \/ ToolbarReachable /\ RasterRoom /\ ClearCanvas
    \/ \E key \in Keys :
          /\ (key = "Delete" /\ ~ModalOpen) => CommitRoom(MaxHistory)
          /\ KeyDown(key)
    \/ ToolbarReachable /\ CommitRoom(MaxDepth) /\ HandleSaveDrawing
    \/ ToolbarReachable /\ CloseDrawing

SpecKeys == Init /\ [][NextKeys]_vars

----------------------------------------------------------------------------
(* Drags on an imported Document: a file is imported, elements are selected
   and dragged, gestures end, undo and redo *)

NextFrame ==
    \/ currentIndex = 0 /\ ImportOf(SessionFile)
    \/ SelectElement
    \/ moves < MaxMoves /\ PointerMove
    \/ CommitRoom(MaxDepth) /\ HandleInteractionEnd
    \/ Undo
    \/ Redo

SpecFrame == Init /\ [][NextFrame]_vars

----------------------------------------------------------------------------
(* Context menus: notes are created, a file is imported, elements are
   selected, menus are opened on elements and on empty canvas and closed, keys
   are pressed *)

\* a file whose second record has the empty string for id
MenuFile ==
    [kind |-> "array",
     items |-> <<ImportedNote(7, [zIndex |-> 1]), ImportedNote(0, [zIndex |-> 2])>>]

NextMenu ==
    \/ CommitRoom(MaxHistory) /\ CreateRoom /\ AddNote
    \/ currentIndex = 0 /\ ImportOf(MenuFile)
    \/ SelectElement
    \/ MarqueeSelect
    \/ OpenContextMenu
    \/ CloseContextMenu
    \/ \E key \in Keys :
          /\ key = "Delete" => CommitRoom(MaxDepth)
          /\ KeyDown(key)

SpecMenu == Init /\ [][NextMenu]_vars

====
